---- MODULE Spec2Model ----
(***************************************************************************)
(* The interactive OAuth login of the two repair scripts:                  *)
(*   GeminiAuthSetup.step4_oauth_login   (scripts/gemini_auth_setup.py)    *)
(*   GeminiAuthFix.perform_oauth_login   (scripts/gemini_cli_auth_fix.py)  *)
(* Each launches `gemini auth login`, scans the child's output for a login *)
(* URL during a discovery window, opens the URL in a browser, then waits   *)
(* for the child to exit and kills it when the wait times out.             *)
(*                                                                         *)
(* The child is a concurrent process: it writes chunks of text to the      *)
(* captured pipe, closes its output and exits whenever it likes.  A text   *)
(* stream is a sequence of tokens; a token is a run of characters, "\n"    *)
(* ends a line.  Time is a clock `now` in seconds.  The routine's own      *)
(* computation takes no time; time passes only where the routine blocks:   *)
(* in readline, in select, in the browser opener and in process.wait.      *)
(***************************************************************************)
EXTENDS Integers, Sequences, FiniteSets, TLC

VARIABLES
    routine,      \* "setup" (step4_oauth_login) or "fix" (perform_oauth_login)
    pc,           \* the routine's position
    launch,       \* result of subprocess.Popen: "none" before the call
    now,          \* time.time()
    start_time,   \* start_time (setup 209, fix 296)
    waitStart,    \* the instant process.wait(timeout=120) was entered
    pipe,         \* kernel pipe of the child's captured stdout
    rbuf,         \* process.stdout's own buffer (text read from the pipe, not yet returned)
    errPipe,      \* kernel pipe of stderr=subprocess.PIPE (setup only; never read)
    stdoutOpen,   \* the child still holds the write end of the captured pipe
    exitStatus,   \* "running", "0", "1" (the child exited) or "SIGKILL"
    nwrites,      \* number of write calls the child has made
    oauth_url,    \* oauth_url (fix) / url with url_found (setup); NoURL when unset
    returncode,   \* process.returncode: "None" until poll() or wait() sees the exit
    retval,       \* what the routine returned: "None" while it runs
    outcome,      \* which terminal branch returned
    written,      \* history: every token the child wrote to the captured stream
    errWritten,   \* history: every token the child wrote to its stderr
    scanned,      \* history: the lines tested against url_pattern
    opened,       \* history: the calls of the browser opener
    readCalled,   \* history: process.stdout.readline was called
    urlWrites,    \* history: number of assignments to the discovered URL
    outcomeWrites,\* history: number of return statements executed
    waited,       \* history: process.wait was called
    waitTimedOut, \* history: process.wait raised TimeoutExpired
    kills,        \* history: number of process.kill() calls
    lastWrite,    \* history: time of the child's last write
    prev,         \* <<outcome, retval>> of the attempt before this one, or <<>>
    step,         \* position of run_setup / run_fix, the caller of the routine
    trace,        \* history: the steps the caller has executed, with their results
    issues_found, \* self.issues_found (run_fix), as a set
    fixes_applied,\* self.fixes_applied (run_fix), as a set
    run_result,   \* what run_setup / run_fix returned: "None" while it runs
    calls         \* history: number of calls of the login routine

vars == <<routine, pc, launch, now, start_time, waitStart, pipe, rbuf, errPipe,
          stdoutOpen, exitStatus, nwrites, oauth_url, returncode, retval,
          outcome, written, errWritten, scanned, opened, readCalled, urlWrites,
          outcomeWrites, waited, waitTimedOut, kills, lastWrite, prev,
          step, trace, issues_found, fixes_applied, run_result, calls>>

----------------------------------------------------------------------------
(* Bounds of the model *)

\* the child makes at most this many write calls
MaxWrites == 3
\* capacity of a kernel pipe, in tokens
PipeCap == 12
\* resolution of the clock, in seconds
TickStep == 10
\* a read that blocks is followed up to this time
MaxTime == 160

(* Constants of the program *)

SetupTimeout == 10
SetupWaitLimit == 120
FixTimeout == 10
FixWaitLimit == 120

DiscoveryTimeout == IF routine = "setup" THEN SetupTimeout ELSE FixTimeout
CompletionTimeout == IF routine = "setup" THEN SetupWaitLimit ELSE FixWaitLimit

----------------------------------------------------------------------------
(* Text *)

NL == "\n"
BadByte == "<0xff>"
Whitespace == {" ", "\t", "\n"}
IsSpace(t) == t \in Whitespace

LineStarting == <<"starting...", NL>>
LineWaiting == <<"waiting...", NL>>
LineExample == <<"visit", " ", "https://", "example.com/auth?code=abc123", " ", "to continue", NL>>
LineGoogle == <<"https://", "accounts.google.com", "/o/oauth2/auth?code=1", NL>>
LineBlank == <<NL>>
LineBad == <<BadByte, NL>>
Prompt == <<"Enter code:">>

\* what one write call of the child may carry
Chunks == {LineStarting, LineWaiting, LineExample, LineGoogle, LineBlank, LineBad, Prompt}
ErrChunks == {LineGoogle}

NoURL == <<>>
NoMatch == <<>>

HasNL(s) == \E i \in 1..Len(s) : s[i] = NL
FirstNL(s) == CHOOSE i \in 1..Len(s) : s[i] = NL /\ \A j \in 1..(i - 1) : s[j] # NL
Rest(s, k) == SubSeq(s, k + 1, Len(s))

\* the lines of a stream: each ends with NL, but for an unfinished last one
RECURSIVE SplitLines(_)
SplitLines(s) ==
    IF s = <<>> THEN <<>>
    ELSE IF HasNL(s) THEN <<SubSeq(s, 1, FirstNL(s))>> \o SplitLines(Rest(s, FirstNL(s)))
    ELSE <<s>>

\* last index of the maximal run of non-whitespace tokens that starts at i: [^\s]+
RunEnd(l, i) ==
    CHOOSE j \in i..Len(l) :
        /\ \A k \in i..j : ~IsSpace(l[k])
        /\ j = Len(l) \/ IsSpace(l[j + 1])

\* re.compile(r'https?://[^\s]+')
SetupMatchAt(l, i) ==
    /\ l[i] \in {"http://", "https://"}
    /\ i + 1 <= Len(l)
    /\ ~IsSpace(l[i + 1])
SetupSearch(l) ==
    IF \E i \in 1..Len(l) : SetupMatchAt(l, i)
    THEN LET i == CHOOSE i \in 1..Len(l) :
                    SetupMatchAt(l, i) /\ \A j \in 1..(i - 1) : ~SetupMatchAt(l, j)
         IN SubSeq(l, i, RunEnd(l, i + 1))
    ELSE NoMatch

\* re.compile(r'https://accounts\.google\.com[^\s]+')
FixMatchAt(l, i) ==
    /\ l[i] = "https://"
    /\ i + 2 <= Len(l)
    /\ l[i + 1] = "accounts.google.com"
    /\ ~IsSpace(l[i + 2])
FixSearch(l) ==
    IF \E i \in 1..Len(l) : FixMatchAt(l, i)
    THEN LET i == CHOOSE i \in 1..Len(l) :
                    FixMatchAt(l, i) /\ \A j \in 1..(i - 1) : ~FixMatchAt(l, j)
         IN SubSeq(l, i, RunEnd(l, i + 2))
    ELSE NoMatch

\* url_pattern.search(line) of the routine that runs
Search(l) == IF routine = "setup" THEN SetupSearch(l) ELSE FixSearch(l)

----------------------------------------------------------------------------
(* The child process *)

Launched == launch = "ok"
Alive == Launched /\ exitStatus = "running"
ChildExited == exitStatus \in {"0", "1"}
ChildRuns == Alive /\ pc \notin {"start", "done"}

\* readline sees end of file: nothing in the pipe and no writer left
AtEOF == ~stdoutOpen /\ pipe = <<>>
\* readline has nothing to return yet
ReadBlocked == ~HasNL(rbuf) /\ pipe = <<>> /\ stdoutOpen

\* the routine's own state before its first statement
LoginInit ==
    /\ routine \in {"setup", "fix"}
    /\ launch = "none"
    /\ now = 0
    /\ start_time = 0
    /\ waitStart = 0
    /\ pipe = <<>>
    /\ rbuf = <<>>
    /\ errPipe = <<>>
    /\ stdoutOpen = FALSE
    /\ exitStatus = "running"
    /\ nwrites = 0
    /\ oauth_url = NoURL
    /\ returncode = "None"
    /\ retval = "None"
    /\ outcome = "None"
    /\ written = <<>>
    /\ errWritten = <<>>
    /\ scanned = <<>>
    /\ opened = <<>>
    /\ readCalled = FALSE
    /\ urlWrites = 0
    /\ outcomeWrites = 0
    /\ waited = FALSE
    /\ waitTimedOut = FALSE
    /\ kills = 0
    /\ lastWrite = 0
    /\ prev = <<>>

\* the login routine is called on a fresh object
Init ==
    /\ LoginInit
    /\ pc = "start"
    /\ step = "login"
    /\ trace = <<>>
    /\ issues_found = {}
    /\ fixes_applied = {}
    /\ run_result = "None"
    /\ calls = 1

runVars == <<step, trace, issues_found, fixes_applied, run_result, calls>>
cfgVars == <<routine, prev, runVars>>
clockVars == <<now, start_time, waitStart>>
orchVars == <<pc, launch, oauth_url, returncode, retval, outcome, rbuf>>
histVars == <<scanned, opened, readCalled, urlWrites, outcomeWrites, waited, waitTimedOut, kills>>

\* the child writes chunk c to its stdout
ChildWrite(c) ==
    /\ ChildRuns /\ stdoutOpen
    /\ nwrites < MaxWrites
    /\ Len(pipe) + Len(c) <= PipeCap
    /\ pipe' = pipe \o c
    /\ written' = written \o c
    /\ nwrites' = nwrites + 1
    /\ lastWrite' = now
    /\ UNCHANGED <<cfgVars, clockVars, orchVars, histVars, errPipe, errWritten,
                   stdoutOpen, exitStatus>>

\* the child writes chunk c to its stderr: the same pipe under
\* stderr=subprocess.STDOUT (fix), a pipe of its own under stderr=subprocess.PIPE (setup)
ChildWriteErr(c) ==
    /\ ChildRuns
    /\ nwrites < MaxWrites
    /\ IF routine = "fix"
       THEN /\ stdoutOpen
            /\ Len(pipe) + Len(c) <= PipeCap
            /\ pipe' = pipe \o c
            /\ written' = written \o c
            /\ UNCHANGED errPipe
       ELSE /\ Len(errPipe) + Len(c) <= PipeCap
            /\ errPipe' = errPipe \o c
            /\ UNCHANGED <<pipe, written>>
    /\ errWritten' = errWritten \o c
    /\ nwrites' = nwrites + 1
    /\ lastWrite' = now
    /\ UNCHANGED <<cfgVars, clockVars, orchVars, histVars, stdoutOpen, exitStatus>>

\* the child closes its output and keeps running
ChildClose ==
    /\ ChildRuns /\ stdoutOpen
    /\ stdoutOpen' = FALSE
    /\ UNCHANGED <<cfgVars, clockVars, orchVars, histVars, pipe, errPipe, exitStatus,
                   nwrites, written, errWritten, lastWrite>>

\* the child exits with status s
ChildExit(s) ==
    /\ ChildRuns
    /\ exitStatus' = s
    /\ stdoutOpen' = FALSE
    /\ UNCHANGED <<cfgVars, clockVars, orchVars, histVars, pipe, errPipe,
                   nwrites, written, errWritten, lastWrite>>

Child ==
    \/ \E c \in Chunks : ChildWrite(c)
    \/ \E c \in ErrChunks : ChildWriteErr(c)
    \/ ChildClose
    \/ \E s \in {"0", "1"} : ChildExit(s)

----------------------------------------------------------------------------
(* Steps shared by the two routines *)

childVars == <<pipe, errPipe, stdoutOpen, exitStatus, nwrites, written, errWritten, lastWrite>>

LaunchErrors == {"FileNotFoundError", "PermissionError"}

\* how long a call of the browser opener may take
OpenDelays == {0, TickStep}

\* a return statement of the routine
Return(o, r) ==
    /\ pc' = "done"
    /\ outcome' = o
    /\ retval' = r
    /\ outcomeWrites' = outcomeWrites + 1

\* open_url_in_browser(url) / open_browser(url): catches every failure of the
\* opener command and returns a flag that both callers ignore
OpenBrowser(url, d, ok) ==
    /\ opened' = Append(opened, [url |-> url, ok |-> ok])
    /\ now' = now + d

\* the line readline returns: up to the first newline, or what is left at end of file
NextLine == SubSeq(rbuf, 1, IF HasNL(rbuf) THEN FirstNL(rbuf) ELSE Len(rbuf))
\* a bug: the read drops the line that follows the one it returns
AfterLine_SkipNext ==
    LET r == Rest(rbuf, IF HasNL(rbuf) THEN FirstNL(rbuf) ELSE Len(rbuf))
    IN IF HasNL(r) THEN Rest(r, FirstNL(r)) ELSE r
AfterLine == Rest(rbuf, IF HasNL(rbuf) THEN FirstNL(rbuf) ELSE Len(rbuf))
\* the decoder of the text stream rejects the chunk it reads
Undecodable(chunk) == \E i \in 1..Len(chunk) : chunk[i] = BadByte

----------------------------------------------------------------------------
(* GeminiAuthSetup.step4_oauth_login *)

\* subprocess.Popen(["gemini", "auth", "login"], stdout=PIPE, stderr=PIPE, ...) succeeds
SetupPopen ==
    /\ routine = "setup" /\ pc = "start"
    /\ launch' = "ok"
    /\ stdoutOpen' = TRUE
    /\ start_time' = now
    /\ pc' = "loop"
    /\ UNCHANGED <<cfgVars, now, waitStart, pipe, rbuf, errPipe, exitStatus, nwrites,
                   oauth_url, returncode, retval, outcome, written, errWritten,
                   histVars, lastWrite>>

\* what `except Exception as e` reports for the exception it caught
SetupExcOutcome(e) == IF e = "FileNotFoundError" THEN "ProcessNotFound" ELSE "Failed"

\* Popen raises e: except Exception (239-241)
SetupLaunchError(e) ==
    /\ routine = "setup" /\ pc = "start"
    /\ launch' = e
    /\ Return(SetupExcOutcome(e), "False")
    /\ UNCHANGED <<cfgVars, clockVars, childVars, rbuf, oauth_url, returncode,
                   scanned, opened, readCalled, urlWrites, waited, waitTimedOut, kills>>

\* while time.time() - start_time < timeout (211); after the loop, process.wait (222-228)
SetupLoop ==
    /\ routine = "setup" /\ pc = "loop"
    /\ IF now - start_time < SetupTimeout
       THEN /\ pc' = "readline"
            /\ UNCHANGED <<waitStart, waited>>
       ELSE /\ pc' = "wait"
            /\ waitStart' = now
            /\ waited' = TRUE
    /\ UNCHANGED <<cfgVars, now, start_time, childVars, launch, oauth_url, returncode,
                   retval, outcome, rbuf, scanned, opened, readCalled, urlWrites,
                   outcomeWrites, waitTimedOut, kills>>

\* readline (212) takes what the pipe holds into the stream's buffer
SetupFill ==
    /\ routine = "setup" /\ pc = "readline"
    /\ ~HasNL(rbuf) /\ pipe # <<>>
    /\ ~Undecodable(pipe)
    /\ rbuf' = rbuf \o pipe
    /\ pipe' = <<>>
    /\ UNCHANGED <<cfgVars, clockVars, pc, launch, oauth_url, returncode, retval, outcome,
                   histVars, errPipe, stdoutOpen, exitStatus, nwrites, written,
                   errWritten, lastWrite>>

\* readline (212) raises UnicodeDecodeError: except Exception (239-241)
SetupReadError ==
    /\ routine = "setup" /\ pc = "readline"
    /\ ~HasNL(rbuf) /\ pipe # <<>>
    /\ Undecodable(pipe)
    /\ pipe' = <<>>
    /\ Return("Failed", "False")
    /\ UNCHANGED <<cfgVars, clockVars, launch, oauth_url, returncode, rbuf,
                   scanned, opened, readCalled, urlWrites, waited, waitTimedOut, kills,
                   errPipe, stdoutOpen, exitStatus, nwrites, written, errWritten, lastWrite>>

\* if not line: break (213-214), then process.wait (222-228)
SetupReadEOF ==
    /\ routine = "setup" /\ pc = "readline"
    /\ ~HasNL(rbuf) /\ AtEOF /\ rbuf = <<>>
    /\ readCalled' = TRUE
    /\ pc' = "wait"
    /\ waitStart' = now
    /\ waited' = TRUE
    /\ UNCHANGED <<cfgVars, now, start_time, childVars, launch, oauth_url, returncode,
                   retval, outcome, rbuf, scanned, opened, urlWrites, outcomeWrites,
                   waitTimedOut, kills>>

url_found == oauth_url # NoURL

\* a bug: the url_found guard is dropped
SetupShouldOpen_NoGuard(m) == m # NoMatch

\* if match and not url_found (217)
SetupShouldOpen(m) == m # NoMatch /\ ~url_found

\* a bug: the line is stripped before `if not line: break`, so a blank line ends
\* the loop as end of file does
SetupScan_BlankBreaks ==
    /\ routine = "setup" /\ pc = "readline"
    /\ HasNL(rbuf) \/ (AtEOF /\ rbuf # <<>>)
    /\ readCalled' = TRUE
    /\ rbuf' = AfterLine
    /\ IF \A k \in 1..Len(NextLine) : IsSpace(NextLine[k])
       THEN /\ pc' = "wait"
            /\ waitStart' = now
            /\ waited' = TRUE
            /\ UNCHANGED <<scanned, opened, now, oauth_url, urlWrites>>
       ELSE /\ scanned' = Append(scanned, NextLine)
            /\ LET m == SetupSearch(NextLine)
               IN IF SetupShouldOpen(m)
                  THEN /\ \E d \in OpenDelays, ok \in BOOLEAN : OpenBrowser(m, d, ok)
                       /\ oauth_url' = m
                       /\ urlWrites' = urlWrites + 1
                  ELSE UNCHANGED <<opened, now, oauth_url, urlWrites>>
            /\ pc' = "loop"
            /\ UNCHANGED <<waitStart, waited>>
    /\ UNCHANGED <<cfgVars, start_time, childVars, launch, returncode, retval,
                   outcome, outcomeWrites, waitTimedOut, kills>>

\* a line was read (212): print, search, open the browser for the first URL (215-221)
SetupScan ==
    /\ routine = "setup" /\ pc = "readline"
    /\ HasNL(rbuf) \/ (AtEOF /\ rbuf # <<>>)
    /\ readCalled' = TRUE
    /\ rbuf' = AfterLine
    /\ scanned' = Append(scanned, NextLine)
    /\ LET m == SetupSearch(NextLine)
       IN IF SetupShouldOpen(m)
          THEN /\ \E d \in OpenDelays, ok \in BOOLEAN : OpenBrowser(m, d, ok)
               /\ oauth_url' = m
               /\ urlWrites' = urlWrites + 1
          ELSE UNCHANGED <<opened, now, oauth_url, urlWrites>>
    /\ pc' = "loop"
    /\ UNCHANGED <<cfgVars, start_time, waitStart, childVars, launch, returncode, retval,
                   outcome, outcomeWrites, waited, waitTimedOut, kills>>

\* a bug: the test of the exit status is inverted
SetupWaitReturn_Inverted ==
    /\ routine = "setup" /\ pc = "wait"
    /\ ~Alive
    /\ returncode' = exitStatus
    /\ IF exitStatus # "0"
       THEN Return("Succeeded", "True")
       ELSE Return("ProcessFailed", "False")
    /\ UNCHANGED <<cfgVars, clockVars, childVars, launch, oauth_url, rbuf,
                   scanned, opened, readCalled, urlWrites, waited, waitTimedOut, kills>>

\* process.wait(timeout=120) returns: the child has exited (228-234)
SetupWaitReturn ==
    /\ routine = "setup" /\ pc = "wait"
    /\ ~Alive
    /\ returncode' = exitStatus
    /\ IF exitStatus = "0"
       THEN Return("Succeeded", "True")
       ELSE Return("ProcessFailed", "False")
    /\ UNCHANGED <<cfgVars, clockVars, childVars, launch, oauth_url, rbuf,
                   scanned, opened, readCalled, urlWrites, waited, waitTimedOut, kills>>

\* process.wait(timeout=120) raises TimeoutExpired (235-236)
SetupWaitTimeout ==
    /\ routine = "setup" /\ pc = "wait"
    /\ Alive
    /\ now - waitStart >= SetupWaitLimit
    /\ pc' = "timeout"
    /\ waitTimedOut' = TRUE
    /\ UNCHANGED <<cfgVars, clockVars, childVars, launch, oauth_url, returncode, retval,
                   outcome, rbuf, scanned, opened, readCalled, urlWrites, outcomeWrites,
                   waited, kills>>

\* a bug: the timeout branch returns without killing the child
KillEffect_NoKill == exitStatus

\* a bug: kill overwrites the status of a child that has exited
KillEffect_Always == "SIGKILL"

\* process.kill(): SIGKILL, a no-op on a child that has exited
KillEffect == IF Alive THEN "SIGKILL" ELSE exitStatus

\* process.kill(); return False (237-238)
SetupKill ==
    /\ routine = "setup" /\ pc = "timeout"
    /\ kills' = kills + 1
    /\ exitStatus' = KillEffect
    /\ stdoutOpen' = FALSE
    /\ Return("TimedOutCompleting", "False")
    /\ UNCHANGED <<cfgVars, clockVars, launch, oauth_url, returncode, rbuf,
                   scanned, opened, readCalled, urlWrites, waited, waitTimedOut,
                   pipe, errPipe, nwrites, written, errWritten, lastWrite>>

Setup ==
    \/ SetupPopen
    \/ \E e \in LaunchErrors : SetupLaunchError(e)
    \/ SetupLoop
    \/ SetupFill
    \/ SetupReadError
    \/ SetupReadEOF
    \/ SetupScan
    \/ SetupWaitReturn
    \/ SetupWaitTimeout
    \/ SetupKill

----------------------------------------------------------------------------
(* GeminiAuthFix.perform_oauth_login (sys.platform != 'win32') *)

\* subprocess.Popen(["gemini", "auth", "login"], stdout=PIPE, stderr=STDOUT, ...) succeeds
FixPopen ==
    /\ routine = "fix" /\ pc = "start"
    /\ launch' = "ok"
    /\ stdoutOpen' = TRUE
    /\ start_time' = now
    /\ pc' = "loop"
    /\ UNCHANGED <<cfgVars, now, waitStart, pipe, rbuf, errPipe, exitStatus, nwrites,
                   oauth_url, returncode, retval, outcome, written, errWritten,
                   histVars, lastWrite>>

\* a bug: the handler logs the error and falls out of the try without returning False
FixNotFound_NoReturn ==
    /\ routine = "fix" /\ pc = "start"
    /\ launch' = "FileNotFoundError"
    /\ Return("ProcessNotFound", "None")
    /\ UNCHANGED <<cfgVars, clockVars, childVars, rbuf, oauth_url, returncode,
                   scanned, opened, readCalled, urlWrites, waited, waitTimedOut, kills>>

\* Popen raises FileNotFoundError: except FileNotFoundError (342-344)
FixNotFound ==
    /\ routine = "fix" /\ pc = "start"
    /\ launch' = "FileNotFoundError"
    /\ Return("ProcessNotFound", "False")
    /\ UNCHANGED <<cfgVars, clockVars, childVars, rbuf, oauth_url, returncode,
                   scanned, opened, readCalled, urlWrites, waited, waitTimedOut, kills>>

\* Popen raises another error: except Exception (345-347)
FixLaunchError(e) ==
    /\ routine = "fix" /\ pc = "start"
    /\ e # "FileNotFoundError"
    /\ launch' = e
    /\ Return("Failed", "False")
    /\ UNCHANGED <<cfgVars, clockVars, childVars, rbuf, oauth_url, returncode,
                   scanned, opened, readCalled, urlWrites, waited, waitTimedOut, kills>>

\* while time.time() - start_time < timeout: if process.poll() is not None: break
\* (298-300); after the loop, process.wait (322-328)
FixLoop ==
    /\ routine = "fix" /\ pc = "loop"
    /\ IF now - start_time < FixTimeout /\ Alive
       THEN /\ pc' = "select"
            /\ UNCHANGED <<waitStart, waited, returncode>>
       ELSE /\ pc' = "wait"
            /\ waitStart' = now
            /\ waited' = TRUE
            /\ returncode' = IF now - start_time < FixTimeout THEN exitStatus ELSE returncode
    /\ UNCHANGED <<cfgVars, now, start_time, childVars, launch, oauth_url,
                   retval, outcome, rbuf, scanned, opened, readCalled, urlWrites,
                   outcomeWrites, waitTimedOut, kills>>

\* select.select([process.stdout], [], [], 0.1) on the pipe's descriptor: readable
\* when the kernel pipe holds data or has no writer left
SelectReady == pipe # <<>> \/ ~stdoutOpen

\* how much of the clock one 0.1 s poll may take
PollDelays == {0, TickStep}

\* ready: go on to readline (303-305)
FixSelectReady ==
    /\ routine = "fix" /\ pc = "select"
    /\ SelectReady
    /\ pc' = "readline"
    /\ UNCHANGED <<cfgVars, clockVars, childVars, launch, oauth_url, returncode, retval,
                   outcome, rbuf, histVars>>

\* not ready within 0.1 s: continue (303, 306-307)
FixSelectTimeout ==
    /\ routine = "fix" /\ pc = "select"
    /\ ~SelectReady
    /\ \E d \in PollDelays : now' = now + d
    /\ pc' = "loop"
    /\ UNCHANGED <<cfgVars, start_time, waitStart, childVars, launch, oauth_url,
                   returncode, retval, outcome, rbuf, histVars>>

\* readline (305) takes what the pipe holds into the stream's buffer
FixFill ==
    /\ routine = "fix" /\ pc = "readline"
    /\ ~HasNL(rbuf) /\ pipe # <<>>
    /\ ~Undecodable(pipe)
    /\ rbuf' = rbuf \o pipe
    /\ pipe' = <<>>
    /\ UNCHANGED <<cfgVars, clockVars, pc, launch, oauth_url, returncode, retval, outcome,
                   histVars, errPipe, stdoutOpen, exitStatus, nwrites, written,
                   errWritten, lastWrite>>

\* readline (305) raises UnicodeDecodeError: except Exception: break (319-321),
\* then process.wait (322-328)
FixReadError ==
    /\ routine = "fix" /\ pc = "readline"
    /\ ~HasNL(rbuf) /\ pipe # <<>>
    /\ Undecodable(pipe)
    /\ pipe' = <<>>
    /\ pc' = "wait"
    /\ waitStart' = now
    /\ waited' = TRUE
    /\ UNCHANGED <<cfgVars, now, start_time, launch, oauth_url, returncode, retval,
                   outcome, rbuf, scanned, opened, readCalled, urlWrites, outcomeWrites,
                   waitTimedOut, kills, errPipe, stdoutOpen, exitStatus, nwrites,
                   written, errWritten, lastWrite>>

\* if not line: continue (310-311).  At end of file select and readline return at
\* once, so the loop spins; the spinning takes time
FixReadEOF ==
    /\ routine = "fix" /\ pc = "readline"
    /\ ~HasNL(rbuf) /\ AtEOF /\ rbuf = <<>>
    /\ readCalled' = TRUE
    /\ \E d \in PollDelays : now' = now + d
    /\ pc' = "loop"
    /\ UNCHANGED <<cfgVars, start_time, waitStart, childVars, launch, oauth_url, returncode,
                   retval, outcome, rbuf, scanned, opened, urlWrites, outcomeWrites,
                   waited, waitTimedOut, kills>>

\* if match and not oauth_url (314)
FixShouldOpen(m) == m # NoMatch /\ oauth_url = NoURL

\* a bug: a failure of the browser opener ends the attempt with False
FixScan_OpenFailureAborts ==
    /\ routine = "fix" /\ pc = "readline"
    /\ HasNL(rbuf) \/ (AtEOF /\ rbuf # <<>>)
    /\ readCalled' = TRUE
    /\ rbuf' = AfterLine
    /\ scanned' = Append(scanned, NextLine)
    /\ LET m == FixSearch(NextLine)
       IN IF FixShouldOpen(m)
          THEN \E d \in OpenDelays, ok \in BOOLEAN :
                 /\ OpenBrowser(m, d, ok)
                 /\ oauth_url' = m
                 /\ urlWrites' = urlWrites + 1
                 /\ IF ok
                    THEN /\ pc' = "wait"
                         /\ waitStart' = now'
                         /\ waited' = TRUE
                         /\ UNCHANGED <<retval, outcome, outcomeWrites>>
                    ELSE /\ Return("Failed", "False")
                         /\ UNCHANGED <<waitStart, waited>>
          ELSE /\ pc' = "loop"
               /\ UNCHANGED <<opened, now, oauth_url, urlWrites, waitStart, waited,
                              retval, outcome, outcomeWrites>>
    /\ UNCHANGED <<cfgVars, start_time, childVars, launch, returncode,
                   waitTimedOut, kills>>

\* a line was read (305): print, search; on the first URL open the browser and
\* break (312-318), then process.wait (322-328)
FixScan ==
    /\ routine = "fix" /\ pc = "readline"
    /\ HasNL(rbuf) \/ (AtEOF /\ rbuf # <<>>)
    /\ readCalled' = TRUE
    /\ rbuf' = AfterLine
    /\ scanned' = Append(scanned, NextLine)
    /\ LET m == FixSearch(NextLine)
       IN IF FixShouldOpen(m)
          THEN /\ \E d \in OpenDelays, ok \in BOOLEAN : OpenBrowser(m, d, ok)
               /\ oauth_url' = m
               /\ urlWrites' = urlWrites + 1
               /\ pc' = "wait"
               /\ waitStart' = now'
               /\ waited' = TRUE
          ELSE /\ pc' = "loop"
               /\ UNCHANGED <<opened, now, oauth_url, urlWrites, waitStart, waited>>
    /\ UNCHANGED <<cfgVars, start_time, childVars, launch, returncode, retval,
                   outcome, outcomeWrites, waitTimedOut, kills>>

\* a bug: success is reported only when a URL was discovered
FixWaitReturn_NeedsURL ==
    /\ routine = "fix" /\ pc = "wait"
    /\ ~Alive
    /\ returncode' = exitStatus
    /\ IF exitStatus = "0" /\ oauth_url # NoURL
       THEN Return("Succeeded", "True")
       ELSE Return("ProcessFailed", "False")
    /\ UNCHANGED <<cfgVars, clockVars, childVars, launch, oauth_url, rbuf,
                   scanned, opened, readCalled, urlWrites, waited, waitTimedOut, kills>>

\* process.wait(timeout=120) returns: the child has exited (328-337)
FixWaitReturn ==
    /\ routine = "fix" /\ pc = "wait"
    /\ ~Alive
    /\ returncode' = exitStatus
    /\ IF exitStatus = "0"
       THEN Return("Succeeded", "True")
       ELSE Return("ProcessFailed", "False")
    /\ UNCHANGED <<cfgVars, clockVars, childVars, launch, oauth_url, rbuf,
                   scanned, opened, readCalled, urlWrites, waited, waitTimedOut, kills>>

\* a bug: one deadline for both phases, the completion timeout counted from start_time
FixWaitTimeout_FromStart ==
    /\ routine = "fix" /\ pc = "wait"
    /\ Alive
    /\ now - start_time >= FixWaitLimit
    /\ pc' = "timeout"
    /\ waitTimedOut' = TRUE
    /\ UNCHANGED <<cfgVars, clockVars, childVars, launch, oauth_url, returncode, retval,
                   outcome, rbuf, scanned, opened, readCalled, urlWrites, outcomeWrites,
                   waited, kills>>

\* process.wait(timeout=120) raises TimeoutExpired (338-339)
FixWaitTimeout ==
    /\ routine = "fix" /\ pc = "wait"
    /\ Alive
    /\ now - waitStart >= FixWaitLimit
    /\ pc' = "timeout"
    /\ waitTimedOut' = TRUE
    /\ UNCHANGED <<cfgVars, clockVars, childVars, launch, oauth_url, returncode, retval,
                   outcome, rbuf, scanned, opened, readCalled, urlWrites, outcomeWrites,
                   waited, kills>>

\* process.kill(); return False (340-341)
FixKill ==
    /\ routine = "fix" /\ pc = "timeout"
    /\ kills' = kills + 1
    /\ exitStatus' = KillEffect
    /\ stdoutOpen' = FALSE
    /\ Return("TimedOutCompleting", "False")
    /\ UNCHANGED <<cfgVars, clockVars, launch, oauth_url, returncode, rbuf,
                   scanned, opened, readCalled, urlWrites, waited, waitTimedOut,
                   pipe, errPipe, nwrites, written, errWritten, lastWrite>>

Fix ==
    \/ FixPopen
    \/ FixNotFound
    \/ \E e \in LaunchErrors : FixLaunchError(e)
    \/ FixLoop
    \/ FixSelectReady
    \/ FixSelectTimeout
    \/ FixFill
    \/ FixReadError
    \/ FixReadEOF
    \/ FixScan
    \/ FixWaitReturn
    \/ FixWaitTimeout
    \/ FixKill

----------------------------------------------------------------------------
(* Time passes while the routine is blocked *)

\* readline blocks: no complete line, nothing to read, the pipe still open.  Inside
\* the discovery window the clock advances by one step; beyond it the routine can
\* only tell that the window is over, so time moves on to MaxTime in one step
TickRead ==
    /\ pc = "readline" /\ ReadBlocked
    /\ now < MaxTime
    /\ now' = IF now - start_time < DiscoveryTimeout THEN now + TickStep ELSE MaxTime
    /\ UNCHANGED <<cfgVars, start_time, waitStart, orchVars, histVars, childVars>>

\* process.wait blocks until the child exits or the timeout is reached; nothing
\* reads the clock in between, so time moves on to the deadline in one step
TickWait ==
    /\ pc = "wait" /\ Alive
    /\ now - waitStart < CompletionTimeout
    /\ now' = waitStart + CompletionTimeout
    /\ UNCHANGED <<cfgVars, start_time, waitStart, orchVars, histVars, childVars>>

Tick == TickRead \/ TickWait

\* the steps of the routine itself
Routine == Setup \/ Fix

Next == Child \/ Routine \/ Tick

Spec == Init /\ [][Next]_vars

----------------------------------------------------------------------------
(* A second attempt: the script is run again after the routine returned.  Only *)
(* what the caller saw of the first attempt is kept.                           *)

\* main(): a fresh object, and run_setup / run_fix call the routine anew
NewAttempt ==
    /\ pc = "done" /\ prev = <<>>
    /\ prev' = <<outcome, retval>>
    /\ pc' = "start"
    /\ launch' = "none"
    /\ now' = 0
    /\ start_time' = 0
    /\ waitStart' = 0
    /\ pipe' = <<>>
    /\ rbuf' = <<>>
    /\ errPipe' = <<>>
    /\ stdoutOpen' = FALSE
    /\ exitStatus' = "running"
    /\ nwrites' = 0
    /\ oauth_url' = NoURL
    /\ returncode' = "None"
    /\ retval' = "None"
    /\ outcome' = "None"
    /\ written' = <<>>
    /\ errWritten' = <<>>
    /\ scanned' = <<>>
    /\ opened' = <<>>
    /\ readCalled' = FALSE
    /\ urlWrites' = 0
    /\ outcomeWrites' = 0
    /\ waited' = FALSE
    /\ waitTimedOut' = FALSE
    /\ kills' = 0
    /\ lastWrite' = 0
    /\ UNCHANGED <<routine, runVars>>

NextRepeat == Next \/ NewAttempt

SpecRepeat == Init /\ [][NextRepeat]_vars

----------------------------------------------------------------------------
(* The callers: GeminiAuthSetup.run_setup and GeminiAuthFix.run_fix.  A step *)
(* that runs commands or touches files is an input: its result is chosen.     *)

\* everything of the login routine but its position
loginState == <<launch, now, start_time, waitStart, pipe, rbuf, errPipe, stdoutOpen,
                exitStatus, nwrites, oauth_url, returncode, retval, outcome, written,
                errWritten, scanned, opened, readCalled, urlWrites, outcomeWrites,
                waited, waitTimedOut, kills, lastWrite>>

\* the caller has not started yet
RunInit(first) ==
    /\ LoginInit
    /\ pc = "idle"
    /\ step = first
    /\ trace = <<>>
    /\ issues_found = {}
    /\ fixes_applied = {}
    /\ run_result = "None"
    /\ calls = 0

\* step s was executed with result r
Did(s, r) == trace' = Append(trace, <<s, r>>)
\* return r, also from the handler `except Exception`, which returns False
RunReturn(r) == run_result' = r /\ step' = "returned"
\* go on with step s
RunGoto(s) == step' = s /\ UNCHANGED run_result

\* self.step1_clear_api_key() (308): the mkdir of the config directory is outside
\* the step's try blocks and may raise; run_setup's except Exception (325-329)
SetupStep1(r) ==
    /\ routine = "setup" /\ step = "step1"
    /\ Did("step1", r)
    /\ IF r = "raised" THEN RunReturn("False") ELSE RunGoto("step2")
    /\ UNCHANGED <<routine, prev, issues_found, fixes_applied, calls, pc, loginState>>

\* if not self.step2_install_gemini_cli(): return False (309-310)
SetupStep2(r) ==
    /\ routine = "setup" /\ step = "step2"
    /\ Did("step2", r)
    /\ IF r = "True" THEN RunGoto("step3") ELSE RunReturn("False")
    /\ UNCHANGED <<routine, prev, issues_found, fixes_applied, calls, pc, loginState>>

\* self.step3_set_term() (311): catches its own errors
SetupStep3 ==
    /\ routine = "setup" /\ step = "step3"
    /\ Did("step3", "None")
    /\ RunGoto("step4")
    /\ UNCHANGED <<routine, prev, issues_found, fixes_applied, calls, pc, loginState>>

\* self.step4_oauth_login() is called (312)
SetupStep4Call ==
    /\ routine = "setup" /\ step = "step4" /\ pc = "idle"
    /\ pc' = "start"
    /\ calls' = calls + 1
    /\ RunGoto("login")
    /\ UNCHANGED <<routine, prev, trace, issues_found, fixes_applied, loginState>>

\* a bug: a failed login is tried again
SetupStep4Return_Retry ==
    /\ routine = "setup" /\ step = "login" /\ pc = "done"
    /\ Did("step4", retval)
    /\ IF retval = "True"
       THEN RunGoto("step5") /\ UNCHANGED pc
       ELSE RunGoto("step4") /\ pc' = "idle"
    /\ UNCHANGED <<routine, prev, issues_found, fixes_applied, calls, loginState>>

\* if not self.step4_oauth_login(): ... return False (312-314)
SetupStep4Return ==
    /\ routine = "setup" /\ step = "login" /\ pc = "done"
    /\ Did("step4", retval)
    /\ IF retval = "True" THEN RunGoto("step5") ELSE RunReturn("False")
    /\ UNCHANGED <<routine, prev, issues_found, fixes_applied, calls, pc, loginState>>

\* self.step5_test_gemini_3() (315): its result is dropped
SetupStep5(r) ==
    /\ routine = "setup" /\ step = "step5"
    /\ Did("step5", r)
    /\ RunGoto("step6")
    /\ UNCHANGED <<routine, prev, issues_found, fixes_applied, calls, pc, loginState>>

\* self.step6_validate_config() (316), then return True (317-322).  The step
\* catches only json.JSONDecodeError around open/json.load (274-280): an unreadable
\* settings file raises into run_setup's except Exception (325-329)
SetupStep6(r) ==
    /\ routine = "setup" /\ step = "step6"
    /\ Did("step6", r)
    /\ IF r = "raised" THEN RunReturn("False") ELSE RunReturn("True")
    /\ UNCHANGED <<routine, prev, issues_found, fixes_applied, calls, pc, loginState>>

RunSetup ==
    \/ \E r \in {"None", "raised"} : SetupStep1(r)
    \/ \E r \in {"True", "False"} : SetupStep2(r)
    \/ SetupStep3
    \/ SetupStep4Call
    \/ SetupStep4Return
    \/ \E r \in {"True", "False"} : SetupStep5(r)
    \/ \E r \in {"True", "False", "raised"} : SetupStep6(r)

\* what diagnose_auth_issues may find (104-163): nothing, the three local
\* problems, or a missing CLI, which also has no credentials and fails the test
Diagnoses ==
    { {},
      {"api_key_conflict", "corrupted_config", "bad_term"},
      {"gemini_cli_missing", "no_credentials", "auth_failure"} }

\* has_issues = self.diagnose_auth_issues() (393).  The check of the settings file
\* catches only json.JSONDecodeError (120-127): when it raises, the checks before it
\* have recorded their issues and run_fix's except Exception returns False (428-430)
FixDiagnose(d, r) ==
    /\ routine = "fix" /\ step = "diagnose"
    /\ IF r = "raised"
       THEN /\ issues_found' = d \cap {"gemini_cli_missing", "api_key_conflict"}
            /\ Did("diagnose", "raised")
            /\ RunReturn("False")
       ELSE /\ issues_found' = d
            /\ Did("diagnose", IF d = {} THEN "False" ELSE "True")
            /\ RunGoto(IF d = {} THEN "verify_only" ELSE "fix_api")
    /\ UNCHANGED <<routine, prev, fixes_applied, calls, pc, loginState>>

\* a bug: the no-issue branch returns the result of the verification test
FixVerifyOnly_ReturnsTest(r) ==
    /\ routine = "fix" /\ step = "verify_only"
    /\ Did("test", r)
    /\ RunReturn(r)
    /\ UNCHANGED <<routine, prev, issues_found, fixes_applied, calls, pc, loginState>>

\* if not has_issues: ... self.test_authentication(); return True (394-398)
FixVerifyOnly(r) ==
    /\ routine = "fix" /\ step = "verify_only"
    /\ Did("test", r)
    /\ RunReturn("True")
    /\ UNCHANGED <<routine, prev, issues_found, fixes_applied, calls, pc, loginState>>

\* if "api_key_conflict" in self.issues_found: self.fix_api_key_conflict() (399-400);
\* the fix is recorded when the shell file was changed (165-190)
FixApiKey(applied) ==
    /\ routine = "fix" /\ step = "fix_api"
    /\ IF "api_key_conflict" \in issues_found
       THEN /\ Did("fix_api_key_conflict", "None")
            /\ fixes_applied' =
                 (IF applied THEN fixes_applied \cup {"api_key_removed"} ELSE fixes_applied)
       ELSE UNCHANGED <<trace, fixes_applied>>
    /\ RunGoto("fix_config")
    /\ UNCHANGED <<routine, prev, issues_found, calls, pc, loginState>>

\* if "corrupted_config" in self.issues_found: self.fix_corrupted_config() (401-402);
\* its mkdir (202) is outside the try blocks and may raise
FixConfig(r) ==
    /\ routine = "fix" /\ step = "fix_config"
    /\ IF "corrupted_config" \in issues_found
       THEN /\ Did("fix_corrupted_config", r)
            /\ fixes_applied' =
                 (IF r = "applied" THEN fixes_applied \cup {"config_reset"} ELSE fixes_applied)
            /\ IF r = "raised" THEN RunReturn("False") ELSE RunGoto("fix_term")
       ELSE /\ UNCHANGED <<trace, fixes_applied>>
            /\ RunGoto("fix_term")
    /\ UNCHANGED <<routine, prev, issues_found, calls, pc, loginState>>

\* if "bad_term" in self.issues_found: self.fix_term_variable() (403-404)
FixTerm(applied) ==
    /\ routine = "fix" /\ step = "fix_term"
    /\ IF "bad_term" \in issues_found
       THEN /\ Did("fix_term_variable", "None")
            /\ fixes_applied' =
                 (IF applied THEN fixes_applied \cup {"term_set"} ELSE fixes_applied)
       ELSE UNCHANGED <<trace, fixes_applied>>
    /\ RunGoto("install")
    /\ UNCHANGED <<routine, prev, issues_found, calls, pc, loginState>>

\* if "gemini_cli_missing" in self.issues_found:
\*     if not self.install_or_update_gemini(): return False (405-407)
FixInstall(r) ==
    /\ routine = "fix" /\ step = "install"
    /\ IF "gemini_cli_missing" \in issues_found
       THEN /\ Did("install_or_update_gemini", r)
            /\ fixes_applied' =
                 (IF r = "True" THEN fixes_applied \cup {"cli_installed"} ELSE fixes_applied)
            /\ IF r = "True" THEN RunGoto("call_login") ELSE RunReturn("False")
       ELSE /\ UNCHANGED <<trace, fixes_applied>>
            /\ RunGoto("call_login")
    /\ UNCHANGED <<routine, prev, issues_found, calls, pc, loginState>>

\* if "no_credentials" in self.issues_found or "auth_failure" in self.issues_found:
\*     self.perform_oauth_login() is called (408-409)
FixLoginCall ==
    /\ routine = "fix" /\ step = "call_login" /\ pc = "idle"
    /\ IF "no_credentials" \in issues_found \/ "auth_failure" \in issues_found
       THEN /\ pc' = "start"
            /\ calls' = calls + 1
            /\ RunGoto("login")
       ELSE /\ UNCHANGED <<pc, calls>>
            /\ RunGoto("verify")
    /\ UNCHANGED <<routine, prev, trace, issues_found, fixes_applied, loginState>>

\* if not self.perform_oauth_login(): ... return False (409-411)
FixLoginReturn ==
    /\ routine = "fix" /\ step = "login" /\ pc = "done"
    /\ Did("perform_oauth_login", retval)
    /\ IF retval = "True" THEN RunGoto("verify") ELSE RunReturn("False")
    /\ UNCHANGED <<routine, prev, issues_found, fixes_applied, calls, pc, loginState>>

\* success = self.test_authentication(); ...; return success (412-424)
FixVerify(r) ==
    /\ routine = "fix" /\ step = "verify"
    /\ Did("test", r)
    /\ RunReturn(r)
    /\ UNCHANGED <<routine, prev, issues_found, fixes_applied, calls, pc, loginState>>

RunFix ==
    \/ \E d \in Diagnoses, r \in {"returned", "raised"} : FixDiagnose(d, r)
    \/ \E r \in {"True", "False"} : FixVerifyOnly(r)
    \/ \E applied \in BOOLEAN : FixApiKey(applied)
    \/ \E r \in {"applied", "failed", "raised"} : FixConfig(r)
    \/ \E applied \in BOOLEAN : FixTerm(applied)
    \/ \E r \in {"True", "False"} : FixInstall(r)
    \/ FixLoginCall
    \/ FixLoginReturn
    \/ \E r \in {"True", "False"} : FixVerify(r)

\* a whole run of the script: main() calls run_setup / run_fix on a fresh object
InitRun == RunInit(IF routine = "setup" THEN "step1" ELSE "diagnose")

Run == RunSetup \/ RunFix

NextRun == Next \/ Run

SpecRun == InitRun /\ [][NextRun]_vars

----------------------------------------------------------------------------
(* Properties *)

\* the scanned lines that match the routine's url_pattern
ScannedMatches == {i \in 1..Len(scanned) : Search(scanned[i]) # NoMatch}
FirstScannedMatch == CHOOSE i \in ScannedMatches : \A j \in ScannedMatches : i <= j

\* C1: once a line read in the discovery loop matches the trigger pattern, the
\* browser opener has been invoked exactly once, with the URL of the first matching
\* line; the discovered URL is assigned at most once and is that URL, whatever
\* matching lines follow.  While no line read has matched, the opener has not been
\* invoked and the URL is unset.
C1_FirstMatchOpenedOnce ==
    /\ urlWrites <= 1
    /\ Len(opened) <= 1
    /\ IF ScannedMatches = {}
       THEN opened = <<>> /\ oauth_url = NoURL
       ELSE /\ Len(opened) = 1
            /\ opened[1].url = Search(scanned[FirstScannedMatch])
            /\ oauth_url = opened[1].url

\* two lines with different URLs were scanned and the opener ran once
C1_Witness ==
    /\ Cardinality(ScannedMatches) >= 2
    /\ \E i \in ScannedMatches : Search(scanned[i]) # oauth_url
    /\ Len(opened) = 1

\* C5: when process.wait timed out (the child was alive at the deadline), the
\* routine returns through the timeout branch (TimedOutCompleting, False), never
\* Succeeded or ProcessFailed, and the child no longer runs when it returns.
C5_TimeoutKills ==
    (pc = "done" /\ waitTimedOut) =>
        /\ outcome = "TimedOutCompleting"
        /\ retval = "False"
        /\ ~Alive

\* the wait timed out and the child was killed
C5_Witness == pc = "done" /\ waitTimedOut /\ exitStatus = "SIGKILL" /\ kills = 1

\* the child printed nothing, on either stream
Silent == written = <<>> /\ errWritten = <<>>

\* C7: a child that exits, before the completion wait times out, without having
\* printed anything never leaves the routine blocked: the routine always has a step
\* of its own to take, it calls process.wait, and it ends with Succeeded when the
\* exit status is zero and ProcessFailed otherwise, the URL unset, the browser
\* opener never invoked and kill never called.
C7_SilentExit ==
    /\ (pc # "done" /\ ChildExited /\ Silent) => ENABLED Routine
    /\ (pc = "done" /\ ChildExited /\ Silent /\ ~waitTimedOut) =>
          /\ waited
          /\ outcome = (IF exitStatus = "0" THEN "Succeeded" ELSE "ProcessFailed")
          /\ retval = (IF exitStatus = "0" THEN "True" ELSE "False")
          /\ oauth_url = NoURL
          /\ opened = <<>>
          /\ kills = 0

\* a silent child exited with status 1 and the routine reported ProcessFailed
C7_Witness ==
    /\ pc = "done" /\ Silent /\ exitStatus = "1" /\ ~waitTimedOut
    /\ outcome = "ProcessFailed"

\* C8: when Popen fails with FileNotFoundError the routine is done at once with
\* outcome ProcessNotFound (False): readline was never called, no line was scanned,
\* the browser opener was not invoked, process.wait and process.kill were not called.
C8_LaunchFailure ==
    launch = "FileNotFoundError" =>
        /\ pc = "done"
        /\ outcome = "ProcessNotFound"
        /\ retval = "False"
        /\ outcomeWrites = 1
        /\ ~readCalled
        /\ scanned = <<>>
        /\ opened = <<>>
        /\ ~waited
        /\ kills = 0

\* the launch failed with FileNotFoundError in perform_oauth_login
C8_Witness == launch = "FileNotFoundError" /\ pc = "done" /\ routine = "fix"

\* the lines the child wrote to the captured stream
WrittenLines == SplitLines(written)
NoLineMatches == \A i \in 1..Len(WrittenLines) : Search(WrittenLines[i]) = NoMatch

\* the routine is in its discovery loop / has called process.wait
InDiscovery == pc \in {"loop", "select", "readline"}
InCompleting == pc \in {"wait", "timeout", "done"} /\ waited

\* C2: while no line the child wrote matches the trigger pattern, the browser opener
\* is not invoked, and once the discovery deadline has passed (by more than one
\* step of the clock) the routine has gone on to process.wait.
C2_NoMatchStillCompletes ==
    (Launched /\ NoLineMatches) =>
        /\ opened = <<>>
        /\ now - start_time >= DiscoveryTimeout + TickStep => InCompleting

\* C3: the routine is never held in the discovery loop beyond its deadline (by more
\* than one step of the clock), and it has returned by the end of the discovery
\* window plus the completion window (give or take one step of the clock each for
\* the last poll and the browser opener).
C3_BoundedBlocking ==
    /\ InDiscovery => now - start_time < DiscoveryTimeout + TickStep
    /\ (Launched /\ pc # "done") =>
           now - start_time < DiscoveryTimeout + CompletionTimeout + 2 * TickStep

\* the child wrote one line at once, the line matches, and it wrote nothing else,
\* keeps its output open and does not exit by itself
OneMatchingLineThenSilent ==
    /\ Launched
    /\ Len(WrittenLines) = 1 /\ HasNL(written) /\ ~NoLineMatches
    /\ errWritten = <<>>
    /\ lastWrite = start_time
    /\ ~ChildExited
    /\ stdoutOpen \/ exitStatus = "SIGKILL"

\* C4: when the child writes one matching line at once and then neither writes nor
\* exits, the routine is never held up by the child (it can take a step of its own,
\* or it is inside process.wait with the timeout still to come), and it returns
\* TimedOutCompleting after calling kill exactly once.
C4_OneLineThenTimeout ==
    OneMatchingLineThenSilent =>
        /\ pc # "done" => ENABLED Routine \/ ENABLED TickWait
        /\ pc = "done" => outcome = "TimedOutCompleting" /\ kills = 1 /\ oauth_url # NoURL

\* the URL the scenario's middle line carries
ExpectedURL(u) ==
    IF u = LineExample
    THEN <<"https://", "example.com/auth?code=abc123">>
    ELSE <<"https://", "accounts.google.com", "/o/oauth2/auth?code=1">>

\* C6: when the child writes 'starting...', a line with a URL and 'waiting...' and
\* exits with status 0, all at once, the routine discovers exactly that URL, opens
\* it and returns Succeeded.
C6_ThreeLinesThenExit ==
    \A u \in {LineExample, LineGoogle} :
        (/\ pc = "done"
         /\ written = LineStarting \o u \o LineWaiting
         /\ errWritten = <<>>
         /\ exitStatus = "0"
         /\ now = start_time)
        => /\ outcome = "Succeeded"
           /\ oauth_url = ExpectedURL(u)
           /\ Len(opened) = 1 /\ opened[1].url = ExpectedURL(u)

\* C9: two attempts that ended in different outcomes returned different values.
C9_OutcomesDistinguishable ==
    (pc = "done" /\ prev # <<>> /\ prev[1] # outcome) => prev[2] # retval

\* C10: the routine returns once, and only after process.wait timed out, the child
\* reported its exit status, or the launch failed; when it returns, a child that was
\* launched is not still running.
C10_OutcomeAfterTermination ==
    /\ outcomeWrites <= 1
    /\ pc = "done" =>
          /\ outcomeWrites = 1
          /\ ~Launched \/ waitTimedOut \/ returncode # "None"
          /\ ~Alive

\* C11: kill is called at most once in an attempt, only after process.wait raised
\* TimeoutExpired and never once the routine has seen an exit status; a kill of a
\* child that has exited by itself raises nothing (the routine returns False from
\* the timeout branch) and leaves the child's exit status and the pipes as they were.
C11_KillOnceNoEffectOnExited ==
    /\ [](/\ kills <= 1
          /\ kills = 1 => /\ waitTimedOut
                          /\ returncode = "None"
                          /\ pc = "done" /\ outcome = "TimedOutCompleting" /\ retval = "False")
    /\ [][(kills' # kills) =>
            /\ pc = "timeout" /\ kills' = kills + 1
            /\ ChildExited => /\ exitStatus' = exitStatus
                              /\ pipe' = pipe /\ errPipe' = errPipe
                              /\ pc' = "done" /\ retval' = "False"]_vars

\* kill was called on a child that had exited after the wait timed out
C11_Witness == kills = 1 /\ ChildExited /\ waitTimedOut /\ pc = "done"

\* C12: once a URL has been discovered the routine is out of its discovery loop:
\* it has called process.wait, and the matching line is the last line it has read.
C12_MatchLeavesDiscovery ==
    oauth_url # NoURL =>
        /\ InCompleting
        /\ Len(scanned) = FirstScannedMatch

\* C13: a readline that returns '' at end of file (the child closed its output,
\* nothing is left to read) takes the routine straight to process.wait.
C13_EndOfStreamCompletes ==
    [][(pc = "readline" /\ AtEOF /\ rbuf = <<>> /\ pc' # pc) =>
          (pc' = "wait" /\ waited')]_vars

\* the child's last write, made inside the discovery window, left a line without
\* its newline, and the child keeps its output open
PartialLinePending ==
    /\ Launched /\ stdoutOpen
    /\ written # <<>> /\ written[Len(written)] # NL
    /\ lastWrite - start_time < DiscoveryTimeout

\* C14: a partial line that stays unfinished does not hold the discovery loop: once
\* the discovery deadline has passed (by more than one step of the clock) the
\* routine has left the loop.
C14_PartialLineDoesNotBlock ==
    PartialLinePending =>
        (now - start_time >= DiscoveryTimeout + TickStep => ~InDiscovery)

\* the text of the scanned lines, one after the other
RECURSIVE Concat(_)
Concat(ls) == IF ls = <<>> THEN <<>> ELSE Head(ls) \o Concat(Tail(ls))
ScannedText == Concat(scanned)
\* l is one line: not empty, no newline but at its end
IsOneLine(l) == l # <<>> /\ \A k \in 1..(Len(l) - 1) : l[k] # NL

\* C15: the lines tested against url_pattern are, in order, the first lines the
\* child wrote to the stream the loop reads, none skipped, repeated or reordered
\* (their text is a prefix of what the child wrote, each is one line, and only a
\* last line read at end of file lacks its newline);
\* and the browser opener has been invoked only when a scanned line matched.
C15_ScannedInOrder ==
    /\ LET text == ScannedText
       IN /\ Len(text) <= Len(written)
          /\ text = SubSeq(written, 1, Len(text))
          /\ \A i \in 1..Len(scanned) :
                /\ IsOneLine(scanned[i])
                /\ \/ scanned[i][Len(scanned[i])] = NL
                   \/ i = Len(scanned) /\ Len(text) = Len(written)
    /\ opened # <<>> => ScannedMatches # {}

\* three different lines were scanned in the order written, the second one matched
C15_Witness ==
    /\ Len(scanned) = 3
    /\ scanned[1] # scanned[2] /\ scanned[2] # scanned[3] /\ scanned[1] # scanned[3]
    /\ ScannedMatches = {2}
    /\ opened # <<>>

\* the scanned lines that hold http:// or https:// followed by a non-whitespace
\* character, whatever the host
ScannedWithURL == {i \in 1..Len(scanned) : SetupSearch(scanned[i]) # NoMatch}

\* C16: in either routine, a URL is discovered exactly when a scanned line holds
\* http:// or https:// followed by a non-whitespace character, and the discovered
\* URL is the run of non-whitespace text from the scheme of the first such line.
C16_AnyHostTriggers ==
    IF ScannedWithURL = {}
    THEN oauth_url = NoURL
    ELSE oauth_url =
           SetupSearch(scanned[CHOOSE i \in ScannedWithURL : \A j \in ScannedWithURL : i <= j])

\* l holds nothing but whitespace (a bare newline included)
IsBlankLine(l) == \A k \in 1..Len(l) : IsSpace(l[k])

\* C17: a blank line the loop reads is tested like any line and never matches; the
\* step that reads it invokes no opener, discovers no URL, neither returns nor calls
\* process.wait, and leaves the routine at the top of its discovery loop.
C17_BlankLineKeepsDiscovering ==
    /\ [](\A i \in 1..Len(scanned) : IsBlankLine(scanned[i]) => i \notin ScannedMatches)
    /\ [][(pc = "readline" /\ HasNL(rbuf) /\ IsBlankLine(NextLine) /\ pc' # pc) =>
            /\ scanned' = Append(scanned, NextLine)
            /\ pc' = "loop"
            /\ opened' = opened /\ oauth_url' = oauth_url
            /\ waited' = waited /\ retval' = "None"]_vars

\* a blank line was read first, and the URL of the line after it was discovered
C17_Witness ==
    /\ Len(scanned) >= 2
    /\ scanned[1] = LineBlank
    /\ 2 \in ScannedMatches
    /\ oauth_url = Search(scanned[2])
    /\ Len(opened) = 1

\* C18: when process.wait returned because the child had exited, the routine ends
\* with Succeeded and True if the exit status is 0 and with ProcessFailed and False
\* otherwise, whether or not a URL was discovered and the opener invoked; and the
\* routine reports Succeeded or ProcessFailed in no other case.
C18_OutcomeByExitStatus ==
    /\ (pc = "done" /\ waited /\ ~waitTimedOut) =>
          /\ ChildExited
          /\ returncode = exitStatus
          /\ outcome = (IF exitStatus = "0" THEN "Succeeded" ELSE "ProcessFailed")
          /\ retval = (IF exitStatus = "0" THEN "True" ELSE "False")
    /\ outcome \in {"Succeeded", "ProcessFailed"} =>
          (pc = "done" /\ waited /\ ~waitTimedOut)

\* the child exited with status 0 and no URL had been discovered: Succeeded
C18_Witness ==
    /\ pc = "done" /\ waited /\ ~waitTimedOut
    /\ exitStatus = "0" /\ oauth_url = NoURL /\ written # <<>>
    /\ outcome = "Succeeded"

\* the browser opener was invoked and failed
OpenFailed == opened # <<>> /\ ~opened[1].ok

\* C19: a call of the browser opener, failing or not, never returns from the
\* routine: the URL is recorded and the routine goes on (fix to process.wait, setup
\* to its next loop test).  After a failed open the URL counts as discovered, the
\* opener is not invoked again, and a routine that has called process.wait ends
\* with TimedOutCompleting when the wait timed out and otherwise with the outcome
\* the child's exit status gives.
C19_OpenFailureNonFatal ==
    /\ [](OpenFailed =>
            /\ Len(opened) = 1
            /\ oauth_url = opened[1].url
            /\ (pc = "done" /\ waited) =>
                  outcome = (IF waitTimedOut THEN "TimedOutCompleting"
                             ELSE IF exitStatus = "0" THEN "Succeeded"
                             ELSE "ProcessFailed"))
    /\ [][opened' # opened =>
            /\ oauth_url' = opened'[Len(opened')].url
            /\ pc' = (IF routine = "fix" THEN "wait" ELSE "loop")
            /\ retval' = "None" /\ outcome' = "None"]_vars

\* the opener failed, the routine went on and the child's exit decided: Succeeded
C19_Witness ==
    /\ OpenFailed
    /\ pc = "done" /\ outcome = "Succeeded" /\ retval = "True"

\* C20: when the only thing the child wrote is a line with a login URL, written
\* to its error stream as soon as it started, and the child did not exit by itself,
\* the routine has scanned that line and discovered its URL by the time it returns.
C20_StderrURLDiscovered ==
    (/\ pc = "done"
     /\ errWritten # <<>> /\ nwrites = 1
     /\ lastWrite = start_time
     /\ ~ChildExited)
    => /\ scanned = <<errWritten>>
       /\ oauth_url = Search(errWritten) /\ oauth_url # NoURL

\* the name under which the caller's trace records the login routine
LoginStep == IF routine = "setup" THEN "step4" ELSE "perform_oauth_login"
\* the login routine was the last step executed, and it returned False
LoginFailedLast == trace # <<>> /\ trace[Len(trace)] = <<LoginStep, "False">>

\* C21: in one run of run_setup or run_fix the login routine is called at most
\* once and 'gemini auth login' is launched at most once, by that call; once the
\* login routine has returned False the caller has returned False, and it executes
\* no further step, calls nothing and launches nothing.
C21_NoRetry ==
    /\ [](/\ calls <= 1
          /\ launch # "none" => calls = 1
          /\ LoginFailedLast => (step = "returned" /\ run_result = "False"))
    /\ [][launch' # launch => (launch = "none" /\ pc = "start")]_vars
    /\ [][LoginFailedLast => (trace' = trace /\ calls' = calls /\ pc' = pc)]_vars

\* the child was launched, the login routine returned False and so did the caller
C21_Witness ==
    /\ LoginFailedLast /\ launch = "ok"
    /\ run_result = "False" /\ calls = 1

\* C22: process.wait raises TimeoutExpired only when the child has had the whole
\* completion timeout since process.wait was called, however late in (or after) the
\* discovery window that call came; until then a wait on a running child goes on.
C22_FullCompletionWindow ==
    /\ waitTimedOut => now - waitStart >= CompletionTimeout
    /\ (pc = "wait" /\ Alive /\ now - waitStart < CompletionTimeout) =>
          (~ENABLED Routine /\ ENABLED TickWait)

\* process.wait was called after the discovery deadline had passed, and timed out
\* a full completion timeout later
C22_Witness ==
    /\ waitTimedOut
    /\ waitStart - start_time >= DiscoveryTimeout + TickStep
    /\ now = waitStart + CompletionTimeout

\* C23: in perform_oauth_login, whenever select finds the pipe not readable, the
\* reader's buffer holds no complete line that is still to be returned.
C23_NoLineLeftInBuffer ==
    (routine = "fix" /\ pc = "select" /\ ~SelectReady) => ~HasNL(rbuf)

\* a write of chunk c by the child would block: the pipe has no room for it
StdoutFull(c) == Len(pipe) + Len(c) > PipeCap
StderrFull(c) == routine = "setup" /\ Len(errPipe) + Len(c) > PipeCap

\* C24: while the routine is in process.wait and the child runs, no write of the
\* child blocks: its open stdout pipe has room for any chunk, and so has the stderr
\* pipe of step4_oauth_login.
C24_ChildNeverBlocked ==
    (pc = "wait" /\ Alive) =>
        /\ stdoutOpen => \A c \in Chunks : ~StdoutFull(c)
        /\ \A c \in ErrChunks : ~StderrFull(c)

\* the steps of run_setup, in order
SetupSteps == <<"step1", "step2", "step3", "step4", "step5", "step6">>

\* C25: run_setup executes its steps in the order 1 to 6; it calls the login
\* routine only after step 2 returned True, runs steps 5 and 6 only after step 4
\* returned True, and returns True exactly when steps 2 and 4 both returned True.
C25_SetupStepsGated ==
    routine = "setup" =>
        /\ Len(trace) <= Len(SetupSteps)
        /\ \A i \in 1..Len(trace) : trace[i][1] = SetupSteps[i]
        /\ calls > 0 => (Len(trace) >= 2 /\ trace[2] = <<"step2", "True">>)
        /\ Len(trace) >= 5 => trace[4] = <<"step4", "True">>
        /\ step = "returned" =>
              (run_result = "True" <=>
                 /\ Len(trace) >= 4
                 /\ trace[2] = <<"step2", "True">>
                 /\ trace[4] = <<"step4", "True">>)

\* diagnose_auth_issues returned, with no issue / with some issue recorded
NoIssue == trace # <<>> /\ trace[1] = <<"diagnose", "False">>
SomeIssue == trace # <<>> /\ trace[1] = <<"diagnose", "True">>
\* the verification test was the last step executed
TestedLast == trace # <<>> /\ trace[Len(trace)][1] = "test"

\* C26: when diagnose_auth_issues returns with no issue recorded, run_fix applies
\* no fix, does not call the login routine and launches nothing, runs the
\* verification test and returns True whatever the test returned; when an issue was
\* recorded and run_fix gets to the verification test, it returns the test's result.
C26_NoIssueReturnsTrue ==
    routine = "fix" =>
        /\ NoIssue =>
              /\ issues_found = {} /\ fixes_applied = {}
              /\ calls = 0 /\ launch = "none" /\ pc = "idle"
              /\ step = "returned" => (run_result = "True" /\ Len(trace) = 2 /\ TestedLast)
        /\ (SomeIssue /\ TestedLast) =>
              (step = "returned" /\ run_result = trace[Len(trace)][2])

\* no issue was found, the verification test failed, and run_fix returned True
C26_Witness ==
    /\ routine = "fix" /\ NoIssue
    /\ trace[Len(trace)] = <<"test", "False">>
    /\ run_result = "True"

====
